---- MODULE Spec2Model ----
(***************************************************************************)
(* Model of the nested-column rewriting helpers and of the flattening /    *)
(* feature-computation script of src/preprocessing/emr/cleaning_spark.py.  *)
(*                                                                         *)
(* Strings (column names, cell texts, schema strings) are sequences of     *)
(* one-character strings, so that str.lower(), string concatenation and    *)
(* re.sub() are computed character by character.                           *)
(*                                                                         *)
(* Engine conventions taken from the defaults of the columnar engine the   *)
(* script runs on: column and field names resolve case-insensitively,      *)
(* withColumn replaces a column of the same name in place, drop removes    *)
(* every column of that name, a failed cast to int yields null, a Row     *)
(* built from a dict keeps the dict's insertion order.                     *)
(***************************************************************************)
EXTENDS Integers, Sequences, FiniteSets, TLC

\* ------------------------------------------------------------------ bounds

\* Longest childColNames / mappings / newChildColNames list handed to
\* manipulateNestedColumns.
MaxListLen == 2

\* ------------------------------------------------------------------ values

\* A cell value: tag t, text s, number n, struct fields f.
Null == [t |-> "null", s |-> <<>>, n |-> 0, f |-> <<>>]

StrV(s) == [t |-> "str", s |-> s, n |-> 0, f |-> <<>>]

IntV(n) == [t |-> "int", s |-> <<>>, n |-> n, f |-> <<>>]

StructV(f) == [t |-> "struct", s |-> <<>>, n |-> 0, f |-> f]

\* Python's None where a name is expected; no column name is this sequence.
None == <<"None">>

\* A mapping argument left out (mapping=None).
NoMapping == "None"

\* The subsequence of s at the positions in S, order kept.
RECURSIVE KeepFrom(_, _, _)
KeepFrom(s, S, i) ==
    IF i > Len(s) THEN << >>
    ELSE IF i \in S THEN <<s[i]>> \o KeepFrom(s, S, i + 1)
    ELSE KeepFrom(s, S, i + 1)

Keep(s, S) == KeepFrom(s, S, 1)

\* ------------------------------------------------------------------ str

UpperAZ == <<"A","B","C","D","E","F","G","H","I","J","K","L","M",
             "N","O","P","Q","R","S","T","U","V","W","X","Y","Z">>

LowerAZ == <<"a","b","c","d","e","f","g","h","i","j","k","l","m",
             "n","o","p","q","r","s","t","u","v","w","x","y","z">>

lowerChar(c) ==
    IF \E i \in 1..Len(UpperAZ) : UpperAZ[i] = c
    THEN LowerAZ[CHOOSE i \in 1..Len(UpperAZ) : UpperAZ[i] = c]
    ELSE c

\* str.lower()
lower(s) == [i \in 1..Len(s) |-> lowerChar(s[i])]

Digits == <<"0","1","2","3","4","5","6","7","8","9">>

IsDigit(c) == \E i \in 1..Len(Digits) : Digits[i] = c

DigitVal(c) == (CHOOSE i \in 1..Len(Digits) : Digits[i] = c) - 1

\* Largest value of the engine's 32-bit "int" type.
IntMax == 2147483647

\* The value of a digit string continued from acc, or -1 once it leaves the
\* int range; the test precedes the multiplication, so nothing overflows.
RECURSIVE ParseDigits(_, _, _)
ParseDigits(s, i, acc) ==
    IF i > Len(s) THEN acc
    ELSE LET d == DigitVal(s[i])
         IN IF acc > (IntMax - d) \div 10 THEN -1
            ELSE ParseDigits(s, i + 1, acc * 10 + d)

\* Column.cast("int") of a text: optional sign, decimal digits, value within
\* the int range; anything else is null.
castStringToInt(s) ==
    LET neg  == Len(s) > 0 /\ s[1] = "-"
        body == IF Len(s) > 0 /\ s[1] \in {"-", "+"} THEN Tail(s) ELSE s
    IN IF Len(body) = 0 \/ \E i \in 1..Len(body) : ~IsDigit(body[i]) THEN Null
       ELSE LET v == ParseDigits(body, 1, 0)
            IN IF v < 0 THEN Null ELSE IntV(IF neg THEN 0 - v ELSE v)

\* The decimal text of a non-negative number (the engine's implicit cast of
\* a numeric column to string).
RECURSIVE IntToChars(_)
IntToChars(n) ==
    IF n < 10 THEN <<Digits[n + 1]>>
    ELSE IntToChars(n \div 10) \o <<Digits[(n % 10) + 1]>>

\* regexp_replace(col, " ", ""): every space removed.
removeSpaces(s) == Keep(s, {i \in 1..Len(s) : s[i] # " "})

\* castToInt without the regexp_replace.
castToIntKeepSpaces(v) ==
    IF v.t = "str" THEN castStringToInt(v.s) ELSE Null

\* castToInt applied to one cell.
castToInt(v) ==
    IF v.t = "null" THEN Null
    ELSE IF v.t = "str" THEN castStringToInt(removeSpaces(v.s))
    ELSE IF v.t = "int" /\ v.n >= 0 THEN castStringToInt(IntToChars(v.n))
    ELSE Null

\* A mapping applied to one cell; a mapping left out is the identity.
applyMapping(mapping, v) ==
    IF mapping = "castToInt" THEN castToInt(v) ELSE v

\* Type names, as the schema string spells them.
tString == <<"s","t","r","i","n","g">>

tInt == <<"i","n","t">>

tBigint == <<"b","i","g","i","n","t">>

tDouble == <<"d","o","u","b","l","e">>

tStruct == <<"s","t","r","u","c","t">>

\* The declared type of a mapped column.
mappedType(mapping, type) ==
    IF mapping = "castToInt" THEN tInt ELSE type

\* ------------------------------------------------------------------ tables

\* A table: cols is a sequence of [name, type, children], children a
\* sequence of [name, type] (empty unless type = tStruct); rows is a
\* sequence of rows, each a sequence of cell values parallel to cols.
NoDF == [cols |-> << >>, rows |-> << >>]

Ok(df) == [err |-> "", df |-> df]

Raise(e) == [err |-> e, df |-> NoDF]

\* The positions of the columns (or fields) a name resolves to.
resolve(fields, name) ==
    {i \in 1..Len(fields) : lower(fields[i].name) = lower(name)}

\* DataFrame.withColumn: replaces every column of that name, else appends.
withColumn(df, colName, col) ==
    LET hit  == resolve(df.cols, colName)
        desc == [name |-> colName, type |-> col.type, children |-> col.children]
    IN IF hit = {}
       THEN [cols |-> Append(df.cols, desc),
             rows |-> [r \in 1..Len(df.rows) |-> Append(df.rows[r], col.vals[r])]]
       ELSE [cols |-> [i \in 1..Len(df.cols) |->
                          IF i \in hit THEN desc ELSE df.cols[i]],
             rows |-> [r \in 1..Len(df.rows) |->
                          [i \in 1..Len(df.cols) |->
                              IF i \in hit THEN col.vals[r] ELSE df.rows[r][i]]]]

\* DataFrame.drop(name): removes every column of that name.
drop(df, colName) ==
    LET keep == (1..Len(df.cols)) \ resolve(df.cols, colName)
    IN [cols |-> Keep(df.cols, keep),
        rows |-> [r \in 1..Len(df.rows) |-> Keep(df.rows[r], keep)]]

\* The position of the (single) column named parentColName.
parentIdx(df, parentColName) ==
    CHOOSE i \in resolve(df.cols, parentColName) : TRUE

\* df["parent.child"] resolves iff exactly one field of the parent matches.
nestedResolves(df, parentColName, childColName) ==
    /\ Cardinality(resolve(df.cols, parentColName)) = 1
    /\ df.cols[parentIdx(df, parentColName)].type = tStruct
    /\ Cardinality(resolve(df.cols[parentIdx(df, parentColName)].children,
                           childColName)) = 1

\* One field of one cell of the parent column; null when the parent is.
fieldOf(v, k) == IF v.t = "struct" THEN v.f[k] ELSE Null

\* The column df["parent.child"]: its type and its value in every row.
nestedCol(df, parentColName, childColName) ==
    LET p == parentIdx(df, parentColName)
        k == CHOOSE j \in resolve(df.cols[p].children, childColName) : TRUE
    IN [type |-> df.cols[p].children[k].type, children |-> << >>,
        vals |-> [r \in 1..Len(df.rows) |-> fieldOf(df.rows[r][p], k)]]

\* A mapping applied to a column expression.
mapCol(mapping, col) ==
    [type |-> mappedType(mapping, col.type), children |-> << >>,
     vals |-> [r \in 1..Len(col.vals) |-> applyMapping(mapping, col.vals[r])]]

\* ------------------------------------------------- manipulateNestedColumn

\* The resolved name with "_" appended whether or not the names collide.
resolvedChildNameAlways(parentColName, childColName, newChildColName) ==
    Append(IF newChildColName = None THEN childColName ELSE newChildColName, "_")

\* The resolved name of the new child: the child's own name when none is
\* given, with "_" appended when it equals the parent's name in lower case.
resolvedChildName(parentColName, childColName, newChildColName) ==
    LET n == IF newChildColName = None THEN childColName ELSE newChildColName
    IN IF lower(n) = lower(parentColName) THEN Append(n, "_") ELSE n

\* The positions of the parent's fields that go into the new struct.
childCols(df, parentColName, childColName, addAsNewChild) ==
    LET kids == df.cols[parentIdx(df, parentColName)].children
    IN IF addAsNewChild THEN 1..Len(kids)
       ELSE {k \in 1..Len(kids) : kids[k].name # childColName}

\* f.struct(newChildColName, *childCols) evaluated on df: the top-level
\* column newChildColName first, then the chosen fields of the parent.
structCol(df, parentColName, newChildColName, picked) ==
    LET p    == parentIdx(df, parentColName)
        n    == CHOOSE i \in resolve(df.cols, newChildColName) : TRUE
        kids == df.cols[p].children
    IN [type |-> tStruct,
        children |-> <<[name |-> df.cols[n].name, type |-> df.cols[n].type]>>
                     \o Keep(kids, picked),
        vals |-> [r \in 1..Len(df.rows) |->
                    StructV(<<df.rows[r][n]>>
                            \o Keep([k \in 1..Len(kids) |->
                                        fieldOf(df.rows[r][p], k)], picked))]]

manipulateNestedColumn(df, parentColName, childColName, mapping, newChildColName, addAsNewChild) ==
    IF newChildColName = None /\ addAsNewChild THEN Raise("ValueError")
    ELSE IF ~nestedResolves(df, parentColName, childColName)
    THEN Raise("AnalysisException")
    ELSE
    LET colToManipulate == nestedCol(df, parentColName, childColName)
        newName == resolvedChildName(parentColName, childColName, newChildColName)
        picked  == childCols(df, parentColName, childColName, addAsNewChild)
        kids    == df.cols[parentIdx(df, parentColName)].children
        df1     == withColumn(df, newName, mapCol(mapping, colToManipulate))
    IN IF ~addAsNewChild /\
          \E k \in picked : Cardinality(resolve(kids, kids[k].name)) # 1
       THEN Raise("AnalysisException")
       ELSE Ok(drop(withColumn(df1, parentColName,
                               structCol(df1, parentColName, newName, picked)),
                    newName))

\* ------------------------------------------------ manipulateNestedColumns

\* A mappings argument: one callable (or None), or a list of them.
OneMapping(m) == [isList |-> FALSE, one |-> m, list |-> << >>]

MappingList(l) == [isList |-> TRUE, one |-> NoMapping, list |-> l]

\* newChildColNames after line 50-51: the child names when left out.
effectiveNewNames(childColNames, newChildColNames) ==
    IF newChildColNames = None THEN childColNames ELSE newChildColNames

\* One mapping handed to the first child only.
effectiveMappingsFirstOnly(childColNames, mappings) ==
    IF ~mappings.isList
    THEN [k \in 1..Len(childColNames) |->
            IF k = 1 THEN mappings.one ELSE NoMapping]
    ELSE mappings.list

\* mappings after line 52-53: one mapping repeated for every child.
effectiveMappings(childColNames, mappings) ==
    IF ~mappings.isList
    THEN [k \in 1..Len(childColNames) |-> mappings.one]
    ELSE mappings.list

\* An assert that forgets the mappings.
lengthsMatchNamesOnly(childColNames, newNames, maps) ==
    Len(newNames) = Len(childColNames)

\* The assert of line 54.
lengthsMatch(childColNames, newNames, maps) ==
    Len(newNames) = Len(childColNames) /\ Len(childColNames) = Len(maps)

\* The number of triples zip() yields.
zipLen(childColNames, newNames, maps) ==
    LET a == Len(childColNames)
        b == Len(newNames)
        c == Len(maps)
    IN IF a <= b /\ a <= c THEN a ELSE IF b <= c THEN b ELSE c

\* ---------------------------------------------- manipulateNestedThroughRdd

\* str(x) inside an f-string: None prints as the text None.
fstr(x) == IF x = None THEN <<"N","o","n","e">> ELSE x

RECURSIVE joinWith(_, _)
\* sep.join(parts)
joinWith(parts, sep) ==
    IF Len(parts) = 0 THEN << >>
    ELSE IF Len(parts) = 1 THEN parts[1]
    ELSE parts[1] \o sep \o joinWith(Tail(parts), sep)

\* The type of a column as DataType.simpleString() prints it.
typeString(col) ==
    IF col.type = tStruct
    THEN tStruct \o <<"<">>
         \o joinWith([k \in 1..Len(col.children) |->
                        col.children[k].name \o <<":">> \o col.children[k].type],
                     <<",">>)
         \o <<">">>
    ELSE col.type

\* df.schema.simpleString()
simpleString(df) ==
    tStruct \o <<"<">>
    \o joinWith([i \in 1..Len(df.cols) |->
                   df.cols[i].name \o <<":">> \o typeString(df.cols[i])],
                <<",">>)
    \o <<">">>

\* pat occurs in s at position i.
matchesAt(pat, s, i) ==
    /\ i + Len(pat) - 1 <= Len(s)
    /\ \A j \in 1..Len(pat) : s[i + j - 1] = pat[j]

\* re.sub(pat, repl, s) for a pattern without metacharacters: every
\* non-overlapping occurrence, leftmost first.
RECURSIVE reSubLiteral(_, _, _, _)
reSubLiteral(pat, repl, s, i) ==
    IF i > Len(s) THEN << >>
    ELSE IF matchesAt(pat, s, i)
    THEN repl \o reSubLiteral(pat, repl, s, i + Len(pat))
    ELSE <<s[i]>> \o reSubLiteral(pat, repl, s, i + 1)

\* re.sub(prefix + ".*?>", repl, s): an occurrence runs from the prefix to
\* the first ">" after it.
RECURSIVE reSubLazy(_, _, _, _)
reSubLazy(prefix, repl, s, i) ==
    IF i > Len(s) THEN << >>
    ELSE LET from == i + Len(prefix)
             ends == {j \in from..Len(s) : s[j] = ">"}
         IN IF matchesAt(prefix, s, i) /\ ends # {}
            THEN repl \o reSubLazy(prefix, repl, s,
                                   (CHOOSE j \in ends : \A k \in ends : j <= k) + 1)
            ELSE <<s[i]>> \o reSubLazy(prefix, repl, s, i + 1)

\* The schema string of lines 86-92.
patchedSchemaString(df, parentColName, childColName, newChildColName, newChildType) ==
    LET childSchemaString ==
            parentColName \o <<":">> \o tStruct \o <<"<">> \o childColName
        newChildSchemaString ==
            parentColName \o <<":">> \o tStruct \o <<"<">> \o fstr(newChildColName)
        schemaString == simpleString(df)
    IN IF newChildType # None
       THEN reSubLazy(childSchemaString \o <<":">>,
                      newChildSchemaString \o <<":">> \o newChildType \o <<">">>,
                      schemaString, 1)
       ELSE reSubLiteral(childSchemaString, newChildSchemaString, schemaString, 1)

\* The positions of the keys of a dict equal to key (keys match exactly).
keyIdx(names, key) == {i \in 1..Len(names) : names[i] = key}

\* A row of the mapped RDD: its field names and values, the field names of
\* its parent Row, whether it was built from a dict (fields then go by name),
\* whether the mapping was called for it, and the exception raised, if any.
RowOut(err, fields, vals, parentFields, fromDict, mapped) ==
    [err |-> err, fields |-> fields, vals |-> vals,
     parentFields |-> parentFields, fromDict |-> fromDict, mapped |-> mapped]

\* adjustRow from line 77 on: the parent Row rebuilt with the mapped child.
adjustPresentRow(df, r, parentColName, childColName, mapping, newChildColName, addAsNewChild) ==
    LET names == [j \in 1..Len(df.cols) |-> df.cols[j].name]
        row   == df.rows[r]
        p     == CHOOSE j \in keyIdx(names, parentColName) : TRUE
        rest  == (1..Len(names)) \ {p}
        kidNames == [k \in 1..Len(df.cols[p].children) |->
                        df.cols[p].children[k].name]
        ks == keyIdx(kidNames, childColName)
    IN IF ks = {}
       THEN RowOut("KeyError", names, row, << >>, FALSE, FALSE)
       ELSE IF mapping = NoMapping
       THEN RowOut("TypeError", names, row, << >>, FALSE, FALSE)
       ELSE
       LET k == CHOOSE j \in ks : TRUE
           newChildValue == applyMapping(mapping, row[p].f[k])
           kept == IF addAsNewChild THEN 1..Len(kidNames)
                   ELSE (1..Len(kidNames)) \ {k}
           dNames == Keep(kidNames, kept)
           dVals  == Keep(row[p].f, kept)
           at == keyIdx(dNames, newChildColName)
           pNames == IF at = {} THEN Append(dNames, newChildColName) ELSE dNames
           pVals  == IF at = {} THEN Append(dVals, newChildValue)
                     ELSE [j \in 1..Len(dVals) |->
                              IF j \in at THEN newChildValue ELSE dVals[j]]
       IN IF newChildColName = None
          THEN RowOut("TypeError", names, row, << >>, FALSE, TRUE)
          ELSE RowOut("", Append(Keep(names, rest), parentColName),
                      Append(Keep(row, rest), StructV(pVals)),
                      pNames, TRUE, TRUE)

\* adjustRow without the test of line 74: None has no asDict.
adjustRowNoNoneCheck(df, r, parentColName, childColName, mapping, newChildColName, addAsNewChild) ==
    LET names == [j \in 1..Len(df.cols) |-> df.cols[j].name]
        ps    == keyIdx(names, parentColName)
    IN IF ps = {} THEN RowOut("KeyError", names, df.rows[r], << >>, FALSE, FALSE)
       ELSE IF df.rows[r][CHOOSE j \in ps : TRUE].t = "null"
       THEN RowOut("AttributeError", names, df.rows[r], << >>, FALSE, FALSE)
       ELSE adjustPresentRow(df, r, parentColName, childColName, mapping,
                             newChildColName, addAsNewChild)

\* The inner function adjustRow applied to row r of df.
adjustRow(df, r, parentColName, childColName, mapping, newChildColName, addAsNewChild) ==
    LET names == [j \in 1..Len(df.cols) |-> df.cols[j].name]
        ps    == keyIdx(names, parentColName)
    IN IF ps = {} THEN RowOut("KeyError", names, df.rows[r], << >>, FALSE, FALSE)
       ELSE IF df.rows[r][CHOOSE j \in ps : TRUE].t = "null"
       THEN RowOut("", names, df.rows[r], << >>, FALSE, FALSE)
       ELSE adjustPresentRow(df, r, parentColName, childColName, mapping,
                             newChildColName, addAsNewChild)

\* Splits s at the commas that are outside every <...>.
RECURSIVE splitTop(_, _, _, _)
splitTop(s, i, depth, cur) ==
    IF i > Len(s) THEN <<cur>>
    ELSE IF s[i] = "," /\ depth = 0
    THEN <<cur>> \o splitTop(s, i + 1, 0, << >>)
    ELSE splitTop(s, i + 1,
                  depth + (IF s[i] = "<" THEN 1 ELSE IF s[i] = ">" THEN -1 ELSE 0),
                  Append(cur, s[i]))

isStructString(t) ==
    /\ Len(t) >= Len(tStruct) + 2
    /\ SubSeq(t, 1, Len(tStruct) + 1) = tStruct \o <<"<">>
    /\ t[Len(t)] = ">"

\* The text between struct< and its closing >.
structBody(t) == SubSeq(t, Len(tStruct) + 2, Len(t) - 1)

\* One "name:type" of a schema string.
parseField(fs) ==
    LET colons == {j \in 1..Len(fs) : fs[j] = ":"}
        c == IF colons = {} THEN Len(fs) + 1
             ELSE CHOOSE j \in colons : \A k \in colons : j <= k
    IN [name |-> SubSeq(fs, 1, c - 1), type |-> SubSeq(fs, c + 1, Len(fs))]

parseFields(body) ==
    IF Len(body) = 0 THEN << >>
    ELSE LET parts == splitTop(body, 1, 0, << >>)
         IN [k \in 1..Len(parts) |-> parseField(parts[k])]

\* The columns a schema string declares.
parseSchema(s) ==
    LET top == parseFields(structBody(s))
    IN [i \in 1..Len(top) |->
          IF isStructString(top[i].type)
          THEN [name |-> top[i].name, type |-> tStruct,
                children |-> parseFields(structBody(top[i].type))]
          ELSE [name |-> top[i].name, type |-> top[i].type, children |-> << >>]]

\* The value of schema column c in a row of the mapped RDD, as
\* StructType.toInternal reads it: by name from a Row built from a dict, by
\* position otherwise.  missing: the Row has no such field, or not as many.
cellFor(row, sch, i, parentColName) ==
    LET c   == sch[i]
        at  == IF row.fromDict THEN keyIdx(row.fields, c.name)
               ELSE IF Len(row.vals) = Len(sch) THEN {i} ELSE {}
    IN IF at = {} THEN [missing |-> TRUE, v |-> Null]
       ELSE
       LET v == row.vals[CHOOSE j \in at : TRUE]
       IN IF c.type # tStruct \/ v.t # "struct" THEN [missing |-> FALSE, v |-> v]
          ELSE IF row.fromDict /\ c.name = parentColName
          THEN IF \E k \in 1..Len(c.children) :
                     keyIdx(row.parentFields, c.children[k].name) = {}
               THEN [missing |-> TRUE, v |-> Null]
               ELSE [missing |-> FALSE,
                     v |-> StructV([k \in 1..Len(c.children) |->
                              v.f[CHOOSE j \in keyIdx(row.parentFields,
                                                      c.children[k].name) : TRUE]])]
          ELSE IF Len(v.f) # Len(c.children)
          THEN [missing |-> TRUE, v |-> Null]
          ELSE [missing |-> FALSE, v |-> v]

\* SparkSession.createDataFrame(rdd, schemaString), with the exception an
\* action on the result raises, if any.
createDataFrame(rows, schemaString, parentColName) ==
    LET sch == parseSchema(schemaString)
    IN IF \E r \in 1..Len(rows) : rows[r].err # ""
       THEN Raise(rows[CHOOSE r \in 1..Len(rows) : rows[r].err # ""].err)
       ELSE IF \E r \in 1..Len(rows), i \in 1..Len(sch) :
                   cellFor(rows[r], sch, i, parentColName).missing
       THEN Raise("ValueError")
       ELSE Ok([cols |-> sch,
                rows |-> [r \in 1..Len(rows) |->
                            [i \in 1..Len(sch) |->
                                cellFor(rows[r], sch, i, parentColName).v]]])

\* The result of manipulateNestedThroughRdd: the patched schema string, the
\* rows of df.rdd.map(adjustRow) and the table built from both.
manipulateNestedThroughRdd(df, parentColName, childColName, mapping, newChildColName, addAsNewChild, newChildType) ==
    IF newChildColName = None /\ addAsNewChild
    THEN [err |-> "ValueError", df |-> NoDF, schema |-> << >>, rows |-> << >>]
    ELSE
    LET newSchemaString == patchedSchemaString(df, parentColName, childColName,
                                               newChildColName, newChildType)
        rows == [r \in 1..Len(df.rows) |->
                    adjustRow(df, r, parentColName, childColName, mapping,
                              newChildColName, addAsNewChild)]
        res  == createDataFrame(rows, newSchemaString, parentColName)
    IN [err |-> res.err, df |-> res.df, schema |-> newSchemaString, rows |-> rows]

\* ------------------------------------------------------------- the script

sStyle == <<"s","t","y","l","e">>

sGiftAmount == <<"G","i","f","t"," ","A","m","o","u","n","t",":">>

sGift_Amount == <<"G","i","f","t","_","A","m","o","u","n","t">>

sFormat == <<"F","o","r","m","a","t",":">>

sAsin == <<"a","s","i","n">>

sOverall == <<"o","v","e","r","a","l","l">>

sReviewText == <<"r","e","v","i","e","w","T","e","x","t">>

sReviewerID == <<"r","e","v","i","e","w","e","r","I","D">>

sUnixReviewTime == <<"u","n","i","x","R","e","v","i","e","w","T","i","m","e">>

sIdentifier == <<"i","d","e","n","t","i","f","i","e","r">>

\* The text of a cell as concat_ws reads it.
cellText(v) == IF v.t = "int" THEN IntToChars(v.n) ELSE v.s

\* f.concat_ws(sep, *cols) in one row: the non-null cells joined.
concat_ws(sep, cells) ==
    StrV(joinWith([k \in 1..Len(Keep(cells, {j \in 1..Len(cells) : cells[j].t # "null"}))
                     |-> cellText(Keep(cells, {j \in 1..Len(cells) :
                                                 cells[j].t # "null"})[k])],
                  sep))

\* The position of a top-level column.
colIdx(d, name) == CHOOSE i \in resolve(d.cols, name) : TRUE

\* Line 107-108: identifier, the fields of style, overall, reviewText.
flatten(d) ==
    LET p    == colIdx(d, sStyle)
        kids == d.cols[p].children
        plain(n) == [name |-> d.cols[colIdx(d, n)].name,
                     type |-> d.cols[colIdx(d, n)].type, children |-> << >>]
    IN [cols |-> <<[name |-> sIdentifier, type |-> tString, children |-> << >>]>>
                 \o [k \in 1..Len(kids) |->
                       [name |-> kids[k].name, type |-> kids[k].type,
                        children |-> << >>]]
                 \o <<plain(sOverall), plain(sReviewText)>>,
        rows |-> [r \in 1..Len(d.rows) |->
                    <<concat_ws(<<"_">>, <<d.rows[r][colIdx(d, sAsin)],
                                           d.rows[r][colIdx(d, sReviewerID)],
                                           d.rows[r][colIdx(d, sUnixReviewTime)]>>)>>
                    \o [k \in 1..Len(kids) |-> fieldOf(d.rows[r][p], k)]
                    \o <<d.rows[r][colIdx(d, sOverall)],
                         d.rows[r][colIdx(d, sReviewText)]>>]]

\* One use of a feature generator: the row computeFeaturesFromRow was
\* called for (0 for the script itself), the persistCache the generator was
\* built with, and the index of the frame handed to generate.
sentenceEmbeddingFeatureGeneratorFactory(persistCache) ==
    [column |-> sReviewText, persistCache |-> persistCache]

\* computeFeaturesFromRow without the isinstance test.
computeFeaturesFromRowNoCheck(d, r) ==
    <<[row |-> r,
       generator |-> sentenceEmbeddingFeatureGeneratorFactory(TRUE),
       index |-> <<d.rows[r][colIdx(d, sIdentifier)]>>]>>

\* computeFeaturesFromRow(row): the generator uses it adds to the log.
computeFeaturesFromRow(d, r) ==
    LET reviewText == d.rows[r][colIdx(d, sReviewText)]
        identifier == d.rows[r][colIdx(d, sIdentifier)]
    IN IF reviewText.t # "str" THEN << >>
       ELSE <<[row |-> r,
               generator |-> sentenceEmbeddingFeatureGeneratorFactory(TRUE),
               index |-> <<identifier>>]>>

\* Line 141: the rows without any null cell, indexed by identifier.
dropnaIndex(d) ==
    LET full == {r \in 1..Len(d.rows) :
                    \A i \in 1..Len(d.cols) : d.rows[r][i].t # "null"}
    IN Keep([r \in 1..Len(d.rows) |-> d.rows[r][colIdx(d, sIdentifier)]], full)

\* ------------------------------------------------------------------ inputs

sSt == <<"s","t">>

sA == <<"a">>

sAb == <<"a","b">>

sStChild == <<"S","t">>

sB == <<"b">>

sId == <<"i","d">>

sN == <<"n">>

sXst == <<"x","s","t">>

sSTUpper == <<"S","T">>

sZ == <<"z">>

scalar(name, type) == [name |-> name, type |-> type, children |-> << >>]

field(name, type) == [name |-> name, type |-> type]

\* id, st:struct<a,ab,St>, n; the second row has no st.
TableG1 ==
    [cols |-> << scalar(sId, tString),
                 [name |-> sSt, type |-> tStruct,
                  children |-> <<field(sA, tString), field(sAb, tString),
                                 field(sStChild, tString)>>],
                 scalar(sN, tBigint) >>,
     rows |-> << << StrV(<<"x">>),
                    StructV(<<StrV(<<" ","7">>), StrV(<<"k">>), StrV(<<"9">>)>>),
                    IntV(1) >>,
                 << StrV(<<"y">>), Null, IntV(2) >> >>]

\* st:struct<a,b>, xst:struct<a>; every row has both.
TableG2 ==
    [cols |-> << [name |-> sSt, type |-> tStruct,
                  children |-> <<field(sA, tString), field(sB, tString)>>],
                 [name |-> sXst, type |-> tStruct,
                  children |-> <<field(sA, tString)>>] >>,
     rows |-> << << StructV(<<StrV(<<"4">>), StrV(<<"k">>)>>),
                    StructV(<<StrV(<<"5">>)>>) >> >>]

GenericTables == {TableG1, TableG2}

\* The texts a Gift Amount cell holds in the modelled inputs.
Amounts == { <<" ","2","5"," ">>, <<"2"," ","5">>, <<"5","0">>,
             <<"2","1","4","7","4","8","3","6","4","7">>,
             <<"3","0","0","0","0","0","0","0","0","0">>, <<"g","i","f","t">> }

StyleCells == {Null} \cup {StructV(<<StrV(<<"c">>), StrV(a)>>) : a \in Amounts}

ReviewCells == {StrV(<<"G","r","e","a","t">>), Null}

\* The raw reviews as spark.read.json loads them (columns in name order).
GiftsTable(style1, text1, style2, text2) ==
    [cols |-> << scalar(sAsin, tString), scalar(sOverall, tDouble),
                 scalar(sReviewText, tString), scalar(sReviewerID, tString),
                 [name |-> sStyle, type |-> tStruct,
                  children |-> <<field(sFormat, tString),
                                 field(sGiftAmount, tString)>>],
                 scalar(sUnixReviewTime, tBigint) >>,
     rows |-> << << StrV(<<"B">>), IntV(5), text1, StrV(<<"R">>), style1, IntV(1) >>,
                 << StrV(<<"B">>), IntV(4), text2, Null, style2, IntV(2) >> >>]

GiftsTables ==
    {GiftsTable(s1, t1, s2, t2) :
        s1 \in StyleCells, t1 \in ReviewCells, s2 \in StyleCells, t2 \in ReviewCells}

\* The struct column the calls on a generic table rewrite.
ParentArg == sSt

\* The children of the parent, by name.
ChildArgs(d) ==
    {d.cols[colIdx(d, ParentArg)].children[k].name :
        k \in 1..Len(d.cols[colIdx(d, ParentArg)].children)}

\* newChildColName arguments: left out, a child's name, another column's
\* name, the parent's name in another case, a name not in use.
NameArgs(d) ==
    {None, sSTUpper, sZ} \cup ChildArgs(d)
    \cup {d.cols[i].name : i \in (1..Len(d.cols)) \ {colIdx(d, ParentArg)}}

MappingArgs == {NoMapping, "castToInt"}

TypeArgs == {None, tInt}

\* The lists handed to manipulateNestedColumns.
SeqsUpTo(S, n) == UNION {[1..k -> S] : k \in 0..n}

ListChildArgs == {sA, sStChild}

ListNameArgs == {sZ, sSTUpper, sId}

\* ------------------------------------------------------------------ state

VARIABLES
    df,       \* the table the call or the script starts from
    pc,       \* where the call or the script stands
    args,     \* the arguments of the call
    out,      \* what manipulateNestedColumn(s) returned or raised
    rdd,      \* what manipulateNestedThroughRdd returned or raised
    cur,      \* manipulateNestedColumns: df at the head of the loop
    i,        \* manipulateNestedColumns: triples of the zip consumed
    flat,     \* flattenedDf
    todo,     \* rows foreach has not visited yet
    featLog   \* the uses of feature generators so far

vars == <<df, pc, args, out, rdd, cur, i, flat, todo, featLog>>

NoArgs ==
    [fn |-> "none", parent |-> << >>, child |-> << >>, mapping |-> NoMapping,
     newName |-> None, add |-> FALSE, newType |-> None,
     children |-> << >>, mappings |-> OneMapping(NoMapping), newNames |-> None]

NoRdd == [err |-> "", df |-> NoDF, schema |-> << >>, rows |-> << >>]

Init ==
    /\ df \in GenericTables \cup GiftsTables
    /\ pc = "idle"
    /\ args = NoArgs
    /\ out = Ok(NoDF)
    /\ rdd = NoRdd
    /\ cur = NoDF
    /\ i = 0
    /\ flat = NoDF
    /\ todo = {}
    /\ featLog = << >>

\* A call of manipulateNestedColumn on a generic table.
CallManipulateNestedColumn ==
    /\ pc = "idle"
    /\ df \in GenericTables
    /\ \E child \in ChildArgs(df), mapping \in MappingArgs,
          newName \in NameArgs(df), add \in BOOLEAN :
         /\ args' = [NoArgs EXCEPT !.fn = "column", !.parent = ParentArg,
                        !.child = child, !.mapping = mapping,
                        !.newName = newName, !.add = add]
         /\ out' = manipulateNestedColumn(df, ParentArg, child, mapping,
                                          newName, add)
    /\ pc' = "done"
    /\ UNCHANGED <<df, rdd, cur, i, flat, todo, featLog>>

\* A call of manipulateNestedThroughRdd on a generic table.
CallManipulateNestedThroughRdd ==
    /\ pc = "idle"
    /\ df \in GenericTables
    /\ \E child \in ChildArgs(df), mapping \in MappingArgs,
          newName \in NameArgs(df), add \in BOOLEAN, newType \in TypeArgs :
         /\ args' = [NoArgs EXCEPT !.fn = "rdd", !.parent = ParentArg,
                        !.child = child, !.mapping = mapping,
                        !.newName = newName, !.add = add, !.newType = newType]
         /\ rdd' = manipulateNestedThroughRdd(df, ParentArg, child, mapping,
                                              newName, add, newType)
    /\ pc' = "done"
    /\ UNCHANGED <<df, out, cur, i, flat, todo, featLog>>

\* manipulateNestedColumns, lines 50-55: the defaults and the assert.
CallManipulateNestedColumns ==
    /\ pc = "idle"
    /\ df \in GenericTables
    /\ \E children \in SeqsUpTo(ListChildArgs, MaxListLen),
          mappings \in {OneMapping(m) : m \in MappingArgs}
                       \cup {MappingList(l) : l \in SeqsUpTo(MappingArgs, MaxListLen)},
          newNames \in {None} \cup SeqsUpTo(ListNameArgs, MaxListLen),
          add \in BOOLEAN :
         /\ args' = [NoArgs EXCEPT !.fn = "columns", !.parent = ParentArg,
                        !.children = children, !.mappings = mappings,
                        !.newNames = newNames, !.add = add]
         /\ IF lengthsMatch(children, effectiveNewNames(children, newNames),
                            effectiveMappings(children, mappings))
            THEN pc' = "loop" /\ out' = out
            ELSE pc' = "done" /\ out' = Raise("AssertionError")
    /\ cur' = df
    /\ i' = 0
    /\ UNCHANGED <<df, rdd, flat, todo, featLog>>

\* manipulateNestedColumns, lines 57-58: one turn of the loop.
LoopStep ==
    /\ pc = "loop"
    /\ LET newNames == effectiveNewNames(args.children, args.newNames)
           maps     == effectiveMappings(args.children, args.mappings)
       IN /\ i < zipLen(args.children, newNames, maps)
          /\ LET res == manipulateNestedColumn(cur, args.parent,
                            args.children[i + 1], maps[i + 1],
                            newNames[i + 1], args.add)
             IN IF res.err = ""
                THEN cur' = res.df /\ i' = i + 1 /\ pc' = "loop" /\ out' = out
                ELSE cur' = cur /\ i' = i /\ pc' = "done" /\ out' = res
    /\ UNCHANGED <<df, args, rdd, flat, todo, featLog>>

\* manipulateNestedColumns, line 59.
LoopReturn ==
    /\ pc = "loop"
    /\ i = zipLen(args.children,
                  effectiveNewNames(args.children, args.newNames),
                  effectiveMappings(args.children, args.mappings))
    /\ out' = Ok(cur)
    /\ pc' = "done"
    /\ UNCHANGED <<df, args, rdd, cur, i, flat, todo, featLog>>

\* The script, line 105: the cleaning step.
MainClean ==
    /\ pc = "idle"
    /\ df \in GiftsTables
    /\ args' = [NoArgs EXCEPT !.fn = "clean", !.parent = sStyle,
                   !.child = sGiftAmount, !.mapping = "castToInt",
                   !.newName = sGift_Amount]
    /\ out' = manipulateNestedColumn(df, sStyle, sGiftAmount, "castToInt",
                                     sGift_Amount, FALSE)
    /\ pc' = "cleaned"
    /\ UNCHANGED <<df, rdd, cur, i, flat, todo, featLog>>

\* The script, lines 107-109: the flat table (also written out as csv).
MainFlatten ==
    /\ pc = "cleaned"
    /\ out.err = ""
    /\ flat' = flatten(out.df)
    /\ todo' = 1..Len(out.df.rows)
    /\ pc' = "foreach"
    /\ UNCHANGED <<df, args, out, rdd, cur, i, featLog>>

\* The script, line 130: foreach calls computeFeaturesFromRow on one row.
ForeachRow ==
    /\ pc = "foreach"
    /\ \E r \in todo :
         /\ featLog' = featLog \o computeFeaturesFromRow(flat, r)
         /\ todo' = todo \ {r}
    /\ UNCHANGED <<df, pc, args, out, rdd, cur, i, flat>>

\* The script, lines 132-144: the generator of the classifier, built with
\* persistCache=False and run on the frame without null cells.
MainTrain ==
    /\ pc = "foreach"
    /\ todo = {}
    /\ featLog' = Append(featLog,
                         [row |-> 0,
                          generator |-> sentenceEmbeddingFeatureGeneratorFactory(FALSE),
                          index |-> dropnaIndex(flat)])
    /\ pc' = "trained"
    /\ UNCHANGED <<df, args, out, rdd, cur, i, flat, todo>>

Next ==
    \/ CallManipulateNestedColumn
    \/ CallManipulateNestedThroughRdd
    \/ CallManipulateNestedColumns
    \/ LoopStep
    \/ LoopReturn
    \/ MainClean
    \/ MainFlatten
    \/ ForeachRow
    \/ MainTrain

Spec == Init /\ [][Next]_vars
\* ------------------------------------------------------------------ claims

\* The fields of the struct column named name, in order.
kidsOf(d, name) == d.cols[colIdx(d, name)].children

\* The values of field k of the struct column named name, row by row.
kidVals(d, name, k) ==
    [r \in 1..Len(d.rows) |-> fieldOf(d.rows[r][colIdx(d, name)], k)]

\* The fields of the struct column as a set of <<name, values>>.
kidSet(d, name) ==
    {<<kidsOf(d, name)[k].name, kidVals(d, name, k)>> :
        k \in 1..Len(kidsOf(d, name))}

\* How often x occurs in the sequence s.
occurrences(s, x) == Cardinality({j \in 1..Len(s) : s[j] = x})

\* The same elements, each as often, in any order.
sameBag(s, t) ==
    /\ Len(s) = Len(t)
    /\ \A j \in 1..Len(s) : occurrences(s, s[j]) = occurrences(t, s[j])

\* A call of manipulateNestedColumn has returned or raised.
ColumnCallDone == pc = "done" /\ args.fn = "column"

\* A call of manipulateNestedThroughRdd has returned or raised.
RddCallDone == pc = "done" /\ args.fn = "rdd"

\* Every top-level column of d other than the parent is in e, with its name,
\* type and values, and e has no other column besides the parent.
frameKept(d, e, parentColName) ==
    /\ \A j \in 1..Len(d.cols) :
          d.cols[j].name # parentColName =>
            \E k \in 1..Len(e.cols) :
               /\ e.cols[k] = d.cols[j]
               /\ \A r \in 1..Len(d.rows) : e.rows[r][k] = d.rows[r][j]
    /\ \A k \in 1..Len(e.cols) :
          e.cols[k].name # parentColName =>
            \E j \in 1..Len(d.cols) : d.cols[j].name = e.cols[k].name

\* C1: a call of manipulateNestedColumn leaves every top-level column other
\* than the parent in place, for every newChildColName; and with
\* newChildColName left out and addAsNewChild false (the child not named like
\* its parent) the parent holds exactly the mapped child under its own name
\* and the other children with their values.
C1_ParentRewrittenFrameKept ==
    ColumnCallDone =>
      /\ out.err = "" => frameKept(df, out.df, args.parent)
      /\ (args.newName = None /\ ~args.add
            /\ lower(args.child) # lower(args.parent)) =>
           /\ out.err = ""
           /\ kidSet(out.df, args.parent) =
                {<<args.child,
                   [r \in 1..Len(df.rows) |->
                      applyMapping(args.mapping,
                         kidVals(df, args.parent,
                            CHOOSE k \in 1..Len(kidsOf(df, args.parent)) :
                               kidsOf(df, args.parent)[k].name = args.child)[r])]>>}
                \cup {kv \in kidSet(df, args.parent) : kv[1] # args.child}
           /\ Len(kidsOf(out.df, args.parent)) = Len(kidsOf(df, args.parent))

\* The new name of a call is missing or is the child's own name.
sameNameAgain(child, newName) == newName = None \/ newName = child

\* C2: with addAsNewChild true every rewrite raises ValueError unless a new
\* name is given that differs from the child's name: manipulateNestedColumn,
\* manipulateNestedThroughRdd, and every child manipulateNestedColumns
\* processes (its newChildColNames left out included).
C2_AddTwiceRejected ==
    /\ (ColumnCallDone /\ args.add /\ sameNameAgain(args.child, args.newName))
          => out.err = "ValueError"
    /\ (RddCallDone /\ args.add /\ sameNameAgain(args.child, args.newName))
          => rdd.err = "ValueError"
    /\ (args.fn = "columns" /\ args.add) =>
          \A k \in 1..i :
             /\ args.newNames # None
             /\ args.newNames[k] # args.children[k]

\* The three list lengths of a manipulateNestedColumns call, a single
\* mapping counted once per child and missing names once per child.
C3_Lengths ==
    <<Len(args.children),
      IF args.newNames = None THEN Len(args.children) ELSE Len(args.newNames),
      IF args.mappings.isList THEN Len(args.mappings.list)
      ELSE Len(args.children)>>

C3_Mismatch == C3_Lengths[1] # C3_Lengths[2] \/ C3_Lengths[1] # C3_Lengths[3]

\* C3: manipulateNestedColumns with lists of different lengths raises before
\* manipulateNestedColumn is applied to any child: the loop is never entered
\* and the table is the one handed in.
C3_MismatchFailsBeforeAnyRewrite ==
    (args.fn = "columns" /\ C3_Mismatch) =>
       /\ pc = "done"
       /\ out.err = "AssertionError"
       /\ i = 0
       /\ cur = df

C3_Witness ==
    /\ args.fn = "columns" /\ C3_Mismatch /\ pc = "done"
    /\ Len(args.children) = MaxListLen
    /\ args.mappings.isList /\ Len(args.mappings.list) = 1

\* The name a call asks for, and whether it collides with the parent's.
C4_Asked == IF args.newName = None THEN args.child ELSE args.newName

C4_Collides == lower(C4_Asked) = lower(args.parent)

C4_Expected == IF C4_Collides THEN C4_Asked \o <<"_">> ELSE C4_Asked

\* The parent of the result has the mapped child under the name n.
C4_ChildUnder(n) ==
    \E k \in 1..Len(kidsOf(out.df, args.parent)) :
       /\ kidsOf(out.df, args.parent)[k].name = n
       /\ kidVals(out.df, args.parent, k) =
             [r \in 1..Len(df.rows) |->
                applyMapping(args.mapping,
                   kidVals(df, args.parent,
                      CHOOSE j \in 1..Len(kidsOf(df, args.parent)) :
                         kidsOf(df, args.parent)[j].name = args.child)[r])]

\* C4 as stated: a call whose resolved name collides with the parent's name
\* does not fail and holds the child under that name plus "_"; without a
\* collision the name is used as it is.
C4_CollisionNeverFails ==
    ColumnCallDone =>
       /\ C4_Collides => out.err = ""
       /\ out.err = "" => C4_ChildUnder(C4_Expected)

\* C4, amended: the same, for the calls line 29 does not reject
\* (addAsNewChild with no new name raises ValueError whatever the names).
C4_CollisionSuffixed ==
    ColumnCallDone =>
       /\ (C4_Collides /\ ~(args.newName = None /\ args.add)) => out.err = ""
       /\ out.err = "" => C4_ChildUnder(C4_Expected)

C4_Witness ==
    /\ ColumnCallDone /\ C4_Collides /\ out.err = ""
    /\ args.newName = sSTUpper
    /\ C4_ChildUnder(<<"S","T","_">>)

\* The map over the RDD ran (the call was not rejected at line 65).
C5_Mapped == RddCallDone /\ Len(rdd.rows) = Len(df.rows)

\* C5: in manipulateNestedThroughRdd a row without a parent value comes out
\* of adjustRow as it went in, without the mapping being called and without
\* an exception, and is the same row in the table built; the mapping is
\* called for rows with a parent value only.
C5_AbsentParentPassesThrough ==
    C5_Mapped =>
      \A r \in 1..Len(df.rows) :
         LET absent == df.rows[r][colIdx(df, args.parent)].t = "null"
         IN /\ absent =>
                 /\ rdd.rows[r].err = ""
                 /\ ~rdd.rows[r].mapped
                 /\ rdd.rows[r].fields =
                       [j \in 1..Len(df.cols) |-> df.cols[j].name]
                 /\ rdd.rows[r].vals = df.rows[r]
                 /\ rdd.err = "" => rdd.df.rows[r] = df.rows[r]
            /\ rdd.rows[r].mapped => ~absent

C5_Witness ==
    /\ C5_Mapped /\ rdd.err = ""
    /\ \E r \in 1..Len(df.rows) :
          df.rows[r][colIdx(df, args.parent)].t = "null"
    /\ \E r \in 1..Len(df.rows) : rdd.rows[r].mapped

\* The triple the loop hands to manipulateNestedColumn at position k.
C6_Mapping(k) ==
    IF args.mappings.isList THEN args.mappings.list[k] ELSE args.mappings.one

C6_NewName(k) ==
    IF args.newNames = None THEN args.children[k] ELSE args.newNames[k]

\* manipulateNestedColumn applied once per position, the first k positions.
RECURSIVE C6_Sequential(_)
C6_Sequential(k) ==
    IF k = 0 THEN Ok(df)
    ELSE LET before == C6_Sequential(k - 1)
         IN IF before.err # "" THEN before
            ELSE manipulateNestedColumn(before.df, args.parent,
                    args.children[k], C6_Mapping(k), C6_NewName(k), args.add)

\* C6: for lists of equal length manipulateNestedColumns returns (or raises)
\* what manipulateNestedColumn applied once per position in list order does,
\* a single mapping being used for every child and every child keeping its
\* own name as the new name when newChildColNames is left out.
C6_BatchedIsSequential ==
    (args.fn = "columns" /\ ~C3_Mismatch) =>
       /\ pc = "done" => out = C6_Sequential(Len(args.children))
       /\ pc = "loop" => Ok(cur) = C6_Sequential(i)

C6_Witness ==
    /\ args.fn = "columns" /\ pc = "done" /\ out.err = ""
    /\ Len(args.children) = MaxListLen
    /\ ~args.mappings.isList /\ args.mappings.one = "castToInt"
    /\ args.newNames = None
    /\ i = MaxListLen

\* The characters of a text other than spaces.
C7_Unspaced(s) == SelectSeq(s, LAMBDA c : c # " ")

\* A text that is decimal digits and spaces, with at least one digit.
C7_SpacedInteger(s) ==
    /\ Len(C7_Unspaced(s)) > 0
    /\ \A j \in 1..Len(C7_Unspaced(s)) : IsDigit(C7_Unspaced(s)[j])

\* d <= e for digit strings of the same length.
RECURSIVE C7_DigitsLeq(_, _)
C7_DigitsLeq(d, e) ==
    IF Len(d) = 0 THEN TRUE
    ELSE IF DigitVal(d[1]) # DigitVal(e[1]) THEN DigitVal(d[1]) < DigitVal(e[1])
    ELSE C7_DigitsLeq(Tail(d), Tail(e))

\* The number a digit string denotes is at most 2147483647.
C7_FitsInt(d) ==
    \/ Len(d) < Len(IntToChars(IntMax))
    \/ Len(d) = Len(IntToChars(IntMax)) /\ C7_DigitsLeq(d, IntToChars(IntMax))

\* Row r of the cleaned table holds the integer of its Gift Amount text
\* under Gift_Amount, has no "Gift Amount:" left and keeps its Format.
C7_RowCleaned(r) ==
    LET style  == df.rows[r][colIdx(df, sStyle)]
        kids   == kidsOf(out.df, sStyle)
        digits == C7_Unspaced(style.f[2].s)
    IN /\ \A k \in 1..Len(kids) : kids[k].name # sGiftAmount
       /\ \E k \in 1..Len(kids) :
             /\ kids[k].name = sGift_Amount
             /\ kidVals(out.df, sStyle, k)[r].t = "int"
             /\ IntToChars(kidVals(out.df, sStyle, k)[r].n) = digits
       /\ \E k \in 1..Len(kids) :
             /\ kids[k].name = sFormat
             /\ kidVals(out.df, sStyle, k)[r] = style.f[1]

\* The rows with a style whose Gift Amount is digits and spaces.
C7_IntegerRows ==
    {r \in 1..Len(df.rows) :
        /\ df.rows[r][colIdx(df, sStyle)].t = "struct"
        /\ C7_SpacedInteger(df.rows[r][colIdx(df, sStyle)].f[2].s)}

\* C7 as stated: the cleaning step turns every Gift Amount that is a decimal
\* integer with spaces into that integer under Gift_Amount.
C7_EveryIntegerCleaned ==
    pc = "cleaned" =>
       /\ out.err = ""
       /\ \A r \in C7_IntegerRows : C7_RowCleaned(r)

\* C7, amended: the same, for the integers that fit the 32-bit int type.
C7_IntegerInRangeCleaned ==
    pc = "cleaned" =>
       /\ out.err = ""
       /\ \A r \in C7_IntegerRows :
             C7_FitsInt(C7_Unspaced(df.rows[r][colIdx(df, sStyle)].f[2].s))
                => C7_RowCleaned(r)

C7_Witness ==
    /\ pc = "cleaned"
    /\ df.rows[1][colIdx(df, sStyle)].t = "struct"
    /\ df.rows[1][colIdx(df, sStyle)].f[2].s = <<" ","2","5"," ">>
    /\ out.df.rows[1][colIdx(out.df, sStyle)].f[1] = IntV(25)
    /\ C7_RowCleaned(1)

\* The uses of a generator logged for row r.
C8_Uses(r) == {k \in 1..Len(featLog) : featLog[k].row = r}

\* C8: foreach skips every row whose reviewText is not a string (no
\* generator, no exception) and runs one generator, built with persistCache
\* true, on a one-row frame indexed by the row's identifier, for every row
\* whose reviewText is a string.
C8_NonTextSkippedTextOnce ==
    pc \in {"foreach", "trained"} =>
      \A r \in 1..Len(flat.rows) :
         IF r \in todo \/ df.rows[r][colIdx(df, sReviewText)].t # "str"
         THEN C8_Uses(r) = {}
         ELSE /\ Cardinality(C8_Uses(r)) = 1
              /\ \A k \in C8_Uses(r) :
                    /\ featLog[k].generator.persistCache = TRUE
                    /\ featLog[k].index =
                          <<flat.rows[r][colIdx(flat, sIdentifier)]>>

C8_Witness ==
    /\ pc = "trained"
    /\ df.rows[1][colIdx(df, sReviewText)].t = "str"
    /\ df.rows[2][colIdx(df, sReviewText)].t = "null"
    /\ Cardinality(C8_Uses(1)) = 1
    /\ C8_Uses(2) = {}

\* The names of a sequence of fields.
namesOf(fields) == [k \in 1..Len(fields) |-> fields[k].name]

\* C9: the patched schema string of manipulateNestedThroughRdd names, for
\* the parent struct, the fields every transformed row with a parent value
\* has (the same names, each as often), and declares every other column as
\* the schema string of the input does (stated for the calls that hand over
\* a mapping and a new name).
C9_PatchedSchemaDescribesRows ==
    (C5_Mapped /\ args.mapping # NoMapping /\ args.newName # None) =>
      LET before == parseSchema(simpleString(df))
          after  == parseSchema(rdd.schema)
      IN /\ \A r \in 1..Len(rdd.rows) :
               (rdd.rows[r].err = "" /\ rdd.rows[r].fromDict) =>
                  \E j \in 1..Len(after) :
                     /\ after[j].name = args.parent
                     /\ sameBag(namesOf(after[j].children),
                                rdd.rows[r].parentFields)
         /\ Len(after) = Len(before)
         /\ \A j \in 1..Len(before) :
               before[j].name # args.parent => after[j] = before[j]

\* C10: on a table whose rows all have a parent value, whatever
\* manipulateNestedColumn accepts manipulateNestedThroughRdd accepts too, and
\* both give the parent the same fields with the same values (stated for the
\* calls that hand over a mapping, which manipulateNestedThroughRdd has no
\* default for).
C10_RddPathEqualsColumnPath ==
    (RddCallDone /\ args.mapping # NoMapping /\
     \A r \in 1..Len(df.rows) : df.rows[r][colIdx(df, args.parent)].t = "struct")
    =>
      LET viaColumn == manipulateNestedColumn(df, args.parent, args.child,
                          args.mapping, args.newName, args.add)
      IN viaColumn.err = "" =>
            /\ rdd.err = ""
            /\ kidSet(rdd.df, args.parent) = kidSet(viaColumn.df, args.parent)
====
